---- MODULE Spec2Model ----
(***************************************************************************)
(* Window-snapping coordination engine of voidraft                         *)
(* (internal/services/window_snap_service.go).                             *)
(*                                                                         *)
(* The engine is modelled as a set of concurrently running callbacks       *)
(* (procs), each with a program counter that stops at every external call  *)
(* into the windowing layer and at every acquisition of the mutex.  Code   *)
(* that runs between two such points is one atomic step.  Time is kept as  *)
(* the elapsed time since each record's MoveTime (time.Since(MoveTime)).   *)
(***************************************************************************)
EXTENDS Integers, Sequences, FiniteSets, TLC

----------------------------------------------------------------------------
(* Bounds of the model *)

NumWindows == 2
NumProcs == 2
MaxEvents == 5
MaxShutdowns == 2
TickMs == 30

----------------------------------------------------------------------------
(* Program constants *)

debounceThreshold == 30
dragDetectionThreshold == 40
minThreshold == 8
maxThreshold == 40
VOIDRAFT_WINDOW_WIDTH == 700
VOIDRAFT_WINDOW_HEIGHT == 800

IDs == 1..NumWindows
Procs == 1..NumProcs
InfoIds == 1..(NumWindows + 1)

NoInfo == 0
NoProc == 0
SnapEdgeNone == "None"

Pos(x, y) == [X |-> x, Y |-> y]

\* Positions the user drags a secondary window to, and positions of the primary.
UserPositions == {Pos(805, 300), Pos(850, 300)}
MainPositions == {Pos(100, 100), Pos(130, 115)}
\* A position whose left edge is 5 px from the origin.
OriginPositions == {Pos(5, 300)}
InitialWindowPos == Pos(850, 300)
InitialMainPos == Pos(100, 100)

WindowSize == <<VOIDRAFT_WINDOW_WIDTH, VOIDRAFT_WINDOW_HEIGHT>>
MainSize == <<VOIDRAFT_WINDOW_WIDTH, VOIDRAFT_WINDOW_HEIGHT>>

Abs(n) == IF n < 0 THEN -n ELSE n
Max2(a, b) == IF a > b THEN a ELSE b
Min2(a, b) == IF a < b THEN a ELSE b

----------------------------------------------------------------------------
(* Pure functions *)

\* The product is rounded to the nearest integer.
calculateAdaptiveThresholdRounded(mainWidth) ==
    LET adaptiveThreshold == (mainWidth * 25 + 500) \div 1000
    IN  IF adaptiveThreshold < minThreshold THEN minThreshold
        ELSE IF adaptiveThreshold > maxThreshold THEN maxThreshold
        ELSE adaptiveThreshold

\* int(float64(mainWidth) * 0.025), clamped to [minThreshold, maxThreshold];
\* minThreshold when the cached width is 0.
calculateAdaptiveThreshold(mainWidth) ==
    IF mainWidth = 0 THEN minThreshold
    ELSE LET adaptiveThreshold == (mainWidth * 25) \div 1000
         IN  IF adaptiveThreshold < minThreshold THEN minThreshold
             ELSE IF adaptiveThreshold > maxThreshold THEN maxThreshold
             ELSE adaptiveThreshold

\* The four corner checks, in the order of the source.
cornerChecks(mainPos, mainSize, currentPos, winSize) ==
    LET mainLeft == mainPos.X
        mainTop == mainPos.Y
        mainRight == mainPos.X + mainSize[1]
        mainBottom == mainPos.Y + mainSize[2]
        windowLeft == currentPos.X
        windowTop == currentPos.Y
        windowRight == currentPos.X + winSize[1]
        windowBottom == currentPos.Y + winSize[2]
    IN  << [edge |-> "TopRight", dx |-> mainRight - windowLeft, dy |-> mainTop - windowBottom],
           [edge |-> "BottomRight", dx |-> mainRight - windowLeft, dy |-> mainBottom - windowTop],
           [edge |-> "BottomLeft", dx |-> mainLeft - windowRight, dy |-> mainBottom - windowTop],
           [edge |-> "TopLeft", dx |-> mainLeft - windowRight, dy |-> mainTop - windowBottom] >>

\* The four edge checks, in the order of the source.
edgeChecks(mainPos, mainSize, currentPos, winSize) ==
    LET mainLeft == mainPos.X
        mainTop == mainPos.Y
        mainRight == mainPos.X + mainSize[1]
        mainBottom == mainPos.Y + mainSize[2]
        windowLeft == currentPos.X
        windowTop == currentPos.Y
        windowRight == currentPos.X + winSize[1]
        windowBottom == currentPos.Y + winSize[2]
    IN  << [edge |-> "Right", distance |-> Abs(mainRight - windowLeft)],
           [edge |-> "Left", distance |-> Abs(mainLeft - windowRight)],
           [edge |-> "Bottom", distance |-> Abs(mainBottom - windowTop)],
           [edge |-> "Top", distance |-> Abs(mainTop - windowBottom)] >>

\* Squared Euclidean distance of a corner check; sqrt(n) <= 1.5 * t  iff  4n <= 9t^2.
cornerDist2(check) == check.dx * check.dx + check.dy * check.dy
\* The corner threshold is 1.5 times the threshold before its truncation
\* (26.25 for the width 700): sqrt(n) <= 26.25  iff  16n <= 105^2.
cornerAcceptedUntruncated(check, threshold) ==
    IF threshold = 17 THEN 16 * cornerDist2(check) <= 105 * 105
    ELSE 4 * cornerDist2(check) <= 9 * threshold * threshold

cornerAccepted(check, threshold) == 4 * cornerDist2(check) <= 9 * threshold * threshold

\* The loop "if bestSnap == nil || dist < bestSnap.distance": the first check of
\* minimal distance among the accepted ones.
bestCorner(checks, threshold) ==
    LET ok == {i \in 1..Len(checks) : cornerAccepted(checks[i], threshold)}
        best == {i \in ok : \A j \in ok :
                     /\ cornerDist2(checks[j]) >= cornerDist2(checks[i])
                     /\ (j < i => cornerDist2(checks[j]) > cornerDist2(checks[i]))}
    IN  IF ok = {} THEN SnapEdgeNone ELSE checks[CHOOSE i \in best : TRUE].edge

\* An edge at exactly the threshold is not accepted.
bestEdgeStrict(checks, threshold) ==
    LET ok == {i \in 1..Len(checks) : checks[i].distance < threshold}
        best == {i \in ok : \A j \in ok :
                     /\ checks[j].distance >= checks[i].distance
                     /\ (j < i => checks[j].distance > checks[i].distance)}
    IN  IF ok = {} THEN SnapEdgeNone ELSE checks[CHOOSE i \in best : TRUE].edge

bestEdge(checks, threshold) ==
    LET ok == {i \in 1..Len(checks) : checks[i].distance <= threshold}
        best == {i \in ok : \A j \in ok :
                     /\ checks[j].distance >= checks[i].distance
                     /\ (j < i => checks[j].distance > checks[i].distance)}
    IN  IF ok = {} THEN SnapEdgeNone ELSE checks[CHOOSE i \in best : TRUE].edge

\* The edges are tried before the corners.
snapCandidateEdgesFirst(mainPos, mainSize, currentPos, winSize, threshold) ==
    LET edge == bestEdge(edgeChecks(mainPos, mainSize, currentPos, winSize), threshold)
    IN  IF edge # SnapEdgeNone THEN edge
        ELSE bestCorner(cornerChecks(mainPos, mainSize, currentPos, winSize), threshold)

\* The geometric part of shouldSnapToMainWindow (after the debounce and the
\* cache look-ups): the accepted edge, SnapEdgeNone when nothing qualifies.
\* mainPos and mainSize are the locals read at lines 613-615, threshold the
\* value computed at line 621.
snapCandidate(mainPos, mainSize, currentPos, winSize, threshold) ==
    LET corner == bestCorner(cornerChecks(mainPos, mainSize, currentPos, winSize), threshold)
    IN  IF corner # SnapEdgeNone THEN corner
        ELSE bestEdge(edgeChecks(mainPos, mainSize, currentPos, winSize), threshold)

\* A window snapped to an edge is also aligned with the primary on the other
\* axis.
calculateSnapPositionAligned(snapEdge, currentPos, mainPos, mainSize, winSize) ==
    CASE snapEdge \in {"Right", "TopRight"} -> Pos(mainPos.X + mainSize[1], mainPos.Y)
      [] snapEdge \in {"Left", "TopLeft"} -> Pos(mainPos.X - winSize[1], mainPos.Y)
      [] snapEdge \in {"Bottom", "BottomRight", "BottomLeft"} ->
             Pos(mainPos.X, mainPos.Y + mainSize[2])
      [] snapEdge = "Top" -> Pos(mainPos.X, mainPos.Y - winSize[2])
      [] OTHER -> currentPos

\* calculateSnapPosition; the sizes are the cached ones.
calculateSnapPosition(snapEdge, currentPos, mainPos, mainSize, winSize) ==
    CASE snapEdge = "Right" -> Pos(mainPos.X + mainSize[1], currentPos.Y)
      [] snapEdge = "Left" -> Pos(mainPos.X - winSize[1], currentPos.Y)
      [] snapEdge = "Bottom" -> Pos(currentPos.X, mainPos.Y + mainSize[2])
      [] snapEdge = "Top" -> Pos(currentPos.X, mainPos.Y - winSize[2])
      [] snapEdge = "TopRight" -> Pos(mainPos.X + mainSize[1], mainPos.Y - winSize[2])
      [] snapEdge = "BottomRight" -> Pos(mainPos.X + mainSize[1], mainPos.Y + mainSize[2])
      [] snapEdge = "BottomLeft" -> Pos(mainPos.X - winSize[1], mainPos.Y + mainSize[2])
      [] snapEdge = "TopLeft" -> Pos(mainPos.X - winSize[1], mainPos.Y - winSize[2])
      [] OTHER -> currentPos

----------------------------------------------------------------------------
(* State *)

VARIABLES
    \* WindowSnapService
    mu,                  \* the proc holding wss.mu, NoProc when free
    snapEnabled,
    lastMainWindowPos,
    lastMainWindowSize,
    managedWindows,      \* map documentID -> *WindowInfo (an InfoId)
    windowRefs,          \* map documentID -> window
    windowSizeCache,     \* map documentID -> <<width, height>>
    isUpdatingPosition,  \* map documentID -> bool
    mainMoveUnhook,      \* TRUE when the field is not nil
    windowMoveUnhooks,   \* map documentID -> the hook (named by its InfoId) it removes
    windowInfo,          \* the WindowInfo records that are still referenced
    \* the windowing layer
    mainAvail,           \* the primary window exists
    mainPos,             \* actual position of the primary window
    winPos,              \* actual position of each secondary window
    winBy,               \* who set that position last: "user" or "engine"
    windowHooks,         \* active move hooks of secondary windows, by captured InfoId
    mainHooksLeaked,     \* an active primary hook that no unhook function reaches
    notif,               \* the hooks with a pending move notification, each "user"
                         \* or, when only a write of the engine raised it, "echo"
    mainNotif,           \* a pending move notification of the primary window
    \* callbacks in progress
    pc,
    loc,
    \* what runs: the windows that exist, the callbacks that may overlap, the
    \* WindowInfo records that may be referenced at a time, the positions the
    \* user drags a window to (fixed by Init)
    scope,
    \* the number of user actions and API calls so far
    events,
    \* what the step that led to this state did, NoStep for the steps that are
    \* not recorded
    last,
    \* the arguments and the results of the geometry functions when they are
    \* applied on their own
    calc,
    \* the configuration-change subscription behind wss.cancelObserver: whether
    \* it still delivers, and how often the cancel function has been called
    observer

engineVars == << snapEnabled, lastMainWindowPos, lastMainWindowSize, managedWindows,
                 windowRefs, windowSizeCache, isUpdatingPosition, mainMoveUnhook,
                 windowMoveUnhooks, windowInfo >>
layerVars == << mainAvail, mainPos, winPos, winBy, windowHooks, mainHooksLeaked, notif,
                mainNotif >>
vars == << mu, engineVars, layerVars, pc, loc, scope, events, last, calc, observer >>

NoLoc == [id |-> 0, info |-> NoInfo, echo |-> FALSE, orphan |-> FALSE,
          currentPos |-> Pos(0, 0),
          posBy |-> "user",
          target |-> Pos(0, 0), mainRead |-> Pos(0, 0), mainSizeRead |-> <<0, 0>>,
          mainPosL |-> Pos(0, 0), mainSizeL |-> <<0, 0>>, prevMain |-> Pos(0, 0),
          pending |-> {}]

NoRecord == [DocumentID |-> 0, IsSnapped |-> FALSE, SnapOffset |-> Pos(0, 0),
             SnapEdge |-> SnapEdgeNone, LastPos |-> Pos(0, 0), MoveAge |-> 0]
NoStep == [op |-> "none", at |-> "idle", id |-> 0, info |-> NoInfo, before |-> NoRecord,
           event |-> Pos(0, 0), echo |-> FALSE, by |-> "user", repeat |-> "none", prevMain |-> Pos(0, 0),
           pos |-> Pos(0, 0), write |-> FALSE, enabled |-> FALSE, orphan |-> FALSE,
           config |-> "none", mainDone |-> FALSE, mainAt |-> Pos(0, 0)]

NoCalc == [op |-> "none", mainPos |-> Pos(0, 0), mainSize |-> <<0, 0>>,
           currentPos |-> Pos(0, 0), winSize |-> <<0, 0>>, threshold |-> 0,
           snapEdge |-> SnapEdgeNone, targetPos |-> Pos(0, 0)]

EmptyMap == [i \in {} |-> 0]
MapPut(f, k, v) == [i \in DOMAIN f \cup {k} |-> IF i = k THEN v ELSE f[i]]
MapDel(f, k) == [i \in DOMAIN f \ {k} |-> f[i]]
MapGet(f, k, default) == IF k \in DOMAIN f THEN f[k] ELSE default

\* The guard is left as SetPosition found it.
keepUpdating(guard, id) == guard

\* wss.isUpdatingPosition[DocumentID] = false after SetPosition has returned,
\* lines 509 and 575.
clearUpdating(guard, id) == MapPut(guard, id, FALSE)

Values(f) == {f[i] : i \in DOMAIN f}

\* WindowInfo records no pointer reaches any more are collected.
Live(mw, hooks, l) == (Values(mw) \cup hooks \cup {l[p].info : p \in Procs}) \ {NoInfo}
Collect(wi, mw, hooks, l) == [r \in DOMAIN wi \cap Live(mw, hooks, l) |-> wi[r]]

MainHookActive == mainMoveUnhook \/ mainHooksLeaked

\* A user action or an API call: at most MaxEvents of them happen.
Event ==
    /\ events < MaxEvents
    /\ events' = events + 1

\* An operation starts on the first free proc.
Idle(p) ==
    /\ p \in scope.procs
    /\ pc[p] = "idle"
    /\ \A q \in scope.procs : q < p => pc[q] # "idle"

\* What GetConfig returns to the constructor: an error, or the configuration
\* with its EnableWindowSnap field.
ConfigResults == {"error", "true", "false"}

\* snapEnabled := true; if err == nil it is config.General.EnableWindowSnap.
NewWindowSnapService(config) == IF config = "error" THEN TRUE ELSE config = "true"

InitState(ids, procs, infos, positions) ==
    /\ mu = NoProc
    /\ \E config \in ConfigResults :
          /\ snapEnabled = NewWindowSnapService(config)
          /\ last = [NoStep EXCEPT !.op = "constructed", !.config = config,
                                   !.enabled = snapEnabled]
    /\ lastMainWindowPos = Pos(0, 0)
    /\ lastMainWindowSize = <<0, 0>>
    /\ managedWindows = EmptyMap
    /\ windowRefs = EmptyMap
    /\ windowSizeCache = EmptyMap
    /\ isUpdatingPosition = EmptyMap
    /\ mainMoveUnhook = FALSE
    /\ windowMoveUnhooks = EmptyMap
    /\ windowInfo = EmptyMap
    /\ mainAvail \in BOOLEAN
    /\ mainPos = InitialMainPos
    /\ winPos = [id \in IDs |-> InitialWindowPos]
    /\ winBy = [id \in IDs |-> "user"]
    /\ windowHooks = {}
    /\ mainHooksLeaked = FALSE
    /\ notif = EmptyMap
    /\ mainNotif = FALSE
    /\ pc = [p \in Procs |-> "idle"]
    /\ loc = [p \in Procs |-> NoLoc]
    /\ scope = [ids |-> ids, procs |-> procs, infos |-> infos, positions |-> positions]
    /\ events = 0
    /\ observer = [watching |-> TRUE, cancels |-> 0]

----------------------------------------------------------------------------
(* The windowing layer and the clock *)

\* A change of a secondary window's position notifies every hook on that
\* window.  Notifications that are pending for a hook are delivered as one.
Notify(n, hooks, wi, id, kind) ==
    LET told == {r \in hooks : wi[r].DocumentID = id}
    IN  [r \in DOMAIN n \cup told |->
            IF r \notin told THEN n[r]
            ELSE IF r \in DOMAIN n /\ kind = "echo" THEN n[r]
            ELSE kind]

\* The notifications of removed hooks are not delivered.
Pending(n, hooks) == [r \in DOMAIN n \cap hooks |-> n[r]]

\* The user drags secondary window id to position P.
UserMove(id, P) ==
    /\ P # winPos[id]
    /\ Event
    /\ winPos' = [winPos EXCEPT ![id] = P]
    /\ winBy' = [winBy EXCEPT ![id] = "user"]
    /\ notif' = Notify(notif, windowHooks, windowInfo, id, "user")
    /\ UNCHANGED << mu, engineVars, mainAvail, mainPos, windowHooks, mainHooksLeaked,
                    mainNotif, pc, loc, scope, calc, observer >>
    /\ last' = NoStep

\* The user drags the primary window to position P.
MainMove(P) ==
    /\ mainAvail
    /\ P # mainPos
    /\ Event
    /\ mainPos' = P
    /\ mainNotif' = MainHookActive
    /\ UNCHANGED << mu, engineVars, mainAvail, winPos, winBy, windowHooks, mainHooksLeaked,
                    notif, pc, loc, scope, calc, observer >>
    /\ last' = NoStep

\* TickMs milliseconds pass.  MoveAge is time.Since(MoveTime); it is compared
\* only with the two thresholds, so it saturates at the larger one.
Tick ==
    /\ \E r \in DOMAIN windowInfo : windowInfo[r].MoveAge < dragDetectionThreshold
    /\ windowInfo' = [r \in DOMAIN windowInfo |->
                        [windowInfo[r] EXCEPT !.MoveAge =
                            Min2(@ + TickMs, dragDetectionThreshold)]]
    /\ UNCHANGED << mu, snapEnabled, lastMainWindowPos, lastMainWindowSize, managedWindows,
                    windowRefs, windowSizeCache, isUpdatingPosition, mainMoveUnhook,
                    windowMoveUnhooks, layerVars, pc, loc, scope, calc, observer, events >>
    /\ last' = NoStep

----------------------------------------------------------------------------
(* RegisterWindow *)

\* &models.WindowInfo{...}, lines 138-145.
NewWindowInfo(documentID, position) ==
    [DocumentID |-> documentID, IsSnapped |-> FALSE, SnapOffset |-> Pos(0, 0),
     SnapEdge |-> SnapEdgeNone, LastPos |-> position, MoveAge |-> 0]

\* wss.mu.Lock()
RegisterLock(p, id) ==
    /\ Idle(p)
    /\ mu = NoProc
    /\ Event
    /\ Cardinality(DOMAIN windowInfo) < scope.infos
    /\ mu' = p
    /\ pc' = [pc EXCEPT ![p] = "r_pos"]
    /\ loc' = [loc EXCEPT ![p] = [NoLoc EXCEPT !.id = id]]
    /\ UNCHANGED << engineVars, layerVars, scope, calc, observer >>
    /\ last' = NoStep

\* window.Position() with the mutex held; the record is stored; then
\* updateWindowSizeCacheLocked releases the mutex.
RegisterPosition(p) ==
    /\ pc[p] = "r_pos"
    /\ LET id == loc[p].id
           new == CHOOSE r \in InfoIds \ DOMAIN windowInfo :
                      \A q \in InfoIds \ DOMAIN windowInfo : r <= q
       IN  /\ managedWindows' = MapPut(managedWindows, id, new)
           /\ windowRefs' = MapPut(windowRefs, id, id)
           /\ loc' = [loc EXCEPT ![p].info = new, ![p].currentPos = winPos[id]]
           /\ windowInfo' = Collect(MapPut(windowInfo, new, NewWindowInfo(id, winPos[id])),
                                    managedWindows', windowHooks, loc')
    /\ mu' = NoProc
    /\ pc' = [pc EXCEPT ![p] = "r_size"]
    /\ UNCHANGED << snapEnabled, lastMainWindowPos, lastMainWindowSize, windowSizeCache,
                    isUpdatingPosition, mainMoveUnhook, windowMoveUnhooks, layerVars,
                    scope, calc, observer, events >>
    /\ last' = NoStep

\* window.Size() outside the mutex; the mutex is taken again and the size
\* cached; the first registered window sets up the primary hook unless
\* mainMoveUnhook is set already, and setupMainWindowEvents releases the mutex.
RegisterSize(p) ==
    /\ pc[p] = "r_size"
    /\ mu = NoProc
    /\ windowSizeCache' = MapPut(windowSizeCache, loc[p].id, WindowSize)
    /\ IF Cardinality(DOMAIN managedWindows) = 1 /\ ~mainMoveUnhook
       THEN mu' = NoProc /\ pc' = [pc EXCEPT ![p] = "r_getmain"]
       ELSE mu' = p /\ pc' = [pc EXCEPT ![p] = "r_hook"]
    /\ UNCHANGED << snapEnabled, lastMainWindowPos, lastMainWindowSize, managedWindows,
                    windowRefs, isUpdatingPosition, mainMoveUnhook, windowMoveUnhooks,
                    windowInfo, layerVars, loc, scope, calc, observer, events >>
    /\ last' = NoStep

\* windowHelper.GetMainWindow() outside the mutex; the mutex is taken again;
\* setupMainWindowEvents returns when !ok.
RegisterGetMain(p) ==
    /\ pc[p] = "r_getmain"
    /\ mu = NoProc
    /\ mu' = p
    /\ pc' = [pc EXCEPT ![p] = IF mainAvail THEN "r_mainhook" ELSE "r_hook"]
    /\ UNCHANGED << engineVars, layerVars, loc, scope, calc, observer, events >>
    /\ last' = NoStep

\* The record of the step in which RegisterWindow returns: the id, the
\* WindowInfo it created and the position it read at line 135.
Registered(p) ==
    [NoStep EXCEPT !.op = "registered", !.at = pc[p], !.id = loc[p].id,
                   !.info = loc[p].info, !.pos = loc[p].currentPos]

\* window.RegisterHook(...) of setupWindowEvents, the unhook function saved
\* under windowInfo.DocumentID.
hookWindow(p) ==
    /\ windowHooks' = windowHooks \cup {loc[p].info}
    /\ windowMoveUnhooks' = MapPut(windowMoveUnhooks, windowInfo[loc[p].info].DocumentID,
                                   loc[p].info)
    /\ mu' = NoProc
    /\ pc' = [pc EXCEPT ![p] = "idle"]
    /\ loc' = [loc EXCEPT ![p] = NoLoc]
    /\ windowInfo' = Collect(windowInfo, managedWindows, windowHooks', loc')
    /\ UNCHANGED << snapEnabled, lastMainWindowPos, lastMainWindowSize, managedWindows,
                    windowRefs, windowSizeCache, isUpdatingPosition, mainAvail, mainPos,
                    winPos, winBy, notif, mainNotif, scope, calc, observer, events >>

\* mainWindow.RegisterHook(...) with the mutex held, then setupWindowEvents and
\* the deferred Unlock.
RegisterMainHook(p) ==
    /\ pc[p] = "r_mainhook"
    /\ mainHooksLeaked' = (mainHooksLeaked \/ mainMoveUnhook)
    /\ mainMoveUnhook' = TRUE
    /\ hookWindow(p)
    /\ last' = Registered(p)

\* setupWindowEvents with the mutex held, and the deferred Unlock.
RegisterHook(p) ==
    /\ pc[p] = "r_hook"
    /\ hookWindow(p)
    /\ UNCHANGED << mainMoveUnhook, mainHooksLeaked >>
    /\ last' = Registered(p)

----------------------------------------------------------------------------
(* UnregisterWindow *)

\* wss.mu.Lock()
UnregisterLock(p, id) ==
    /\ Idle(p)
    /\ mu = NoProc
    /\ Event
    /\ mu' = p
    /\ pc' = [pc EXCEPT ![p] = "u_locked"]
    /\ loc' = [loc EXCEPT ![p] = [NoLoc EXCEPT !.id = id]]
    /\ UNCHANGED << engineVars, layerVars, scope, calc, observer >>
    /\ last' = NoStep

\* A map entry deleted during a range loop is not produced by it any more.
DropPending(l, ids) == [q \in Procs |-> [l[q] EXCEPT !.pending = @ \ ids]]

\* unhook() with the mutex held when the entry exists, then the four deletes;
\* with no window left cleanupMainWindowEvents calls wss.mainMoveUnhook(),
\* with the mutex held too; the deferred Unlock.
UnregisterUnhook(p) ==
    /\ pc[p] = "u_locked"
    /\ LET id == loc[p].id
           noneLeft == DOMAIN managedWindows \subseteq {id}
       IN  /\ windowHooks' = windowHooks \ {MapGet(windowMoveUnhooks, id, NoInfo)}
           /\ notif' = Pending(notif, windowHooks')
           /\ windowMoveUnhooks' = MapDel(windowMoveUnhooks, id)
           /\ managedWindows' = MapDel(managedWindows, id)
           /\ windowRefs' = MapDel(windowRefs, id)
           /\ windowSizeCache' = MapDel(windowSizeCache, id)
           /\ isUpdatingPosition' = MapDel(isUpdatingPosition, id)
           /\ mainMoveUnhook' = (mainMoveUnhook /\ ~noneLeft)
           /\ mainNotif' = (mainNotif /\ (mainMoveUnhook' \/ mainHooksLeaked))
           /\ loc' = DropPending([loc EXCEPT ![p] = NoLoc], {id})
           /\ windowInfo' = Collect(windowInfo, managedWindows', windowHooks', loc')
    /\ mu' = NoProc
    /\ pc' = [pc EXCEPT ![p] = "idle"]
    /\ UNCHANGED << snapEnabled, lastMainWindowPos, lastMainWindowSize, mainAvail, mainPos,
                    winPos, winBy, mainHooksLeaked, scope, calc, observer, events >>
    /\ last' = NoStep

----------------------------------------------------------------------------
(* SetSnapEnabled and the configuration observer *)

\* A detach that forgets the edge.
unsnapKeepsEdge(info) == [info EXCEPT !.IsSnapped = FALSE]

\* windowInfo.IsSnapped = false; windowInfo.SnapEdge = models.SnapEdgeNone
unsnap(info) == [info EXCEPT !.IsSnapped = FALSE, !.SnapEdge = SnapEdgeNone]

\* The loop of SetSnapEnabled over wss.managedWindows.
unsnapAll(wi, mw) ==
    [r \in DOMAIN wi |-> IF r \in Values(mw) /\ wi[r].IsSnapped THEN unsnap(wi[r]) ELSE wi[r]]

\* Enabling attaches again every tracked window that has been attached.
setAllReattaching(enabled, wi, mw) ==
    IF enabled
    THEN [r \in DOMAIN wi |->
             IF r \in Values(mw) /\ wi[r].SnapOffset # Pos(0, 0)
             THEN [wi[r] EXCEPT !.IsSnapped = TRUE, !.SnapEdge = "Right"]
             ELSE wi[r]]
    ELSE unsnapAll(wi, mw)

\* if !enabled { ... }: the records after the flag has changed to enabled.
setAll(enabled, wi, mw) == IF enabled THEN wi ELSE unsnapAll(wi, mw)

\* Lock, the body and the deferred Unlock: no call leaves the engine.
setSnapEnabledLocked(enabled) ==
    /\ mu = NoProc
    /\ Event
    /\ IF snapEnabled = enabled
       THEN UNCHANGED << snapEnabled, windowInfo >>
       ELSE /\ snapEnabled' = enabled
            /\ windowInfo' = setAll(enabled, windowInfo, managedWindows)
    /\ UNCHANGED << mu, lastMainWindowPos, lastMainWindowSize, managedWindows, windowRefs,
                    windowSizeCache, isUpdatingPosition, mainMoveUnhook, windowMoveUnhooks,
                    layerVars, pc, loc, scope, calc, observer >>

SetSnapEnabled(enabled) ==
    /\ setSnapEnabledLocked(enabled)
    /\ last' = [NoStep EXCEPT !.op = "SetSnapEnabled", !.enabled = enabled]

\* Values a change notification may carry.
ConfigValues == {"nil", "true", "false", "string"}

\* enabled := false; a non-nil bool newValue replaces it.
parseEnabled(newValue) == newValue = "true"

\* OnWindowSnapConfigChanged(enabled) is SetSnapEnabled(enabled).
onWindowSnapConfigChange(newValue) ==
    /\ setSnapEnabledLocked(parseEnabled(newValue))
    /\ last' = [NoStep EXCEPT !.op = "SetSnapEnabled", !.enabled = parseEnabled(newValue),
                              !.config = newValue]

----------------------------------------------------------------------------
(* UpdateMainWindowCache *)

\* wss.mu.Lock()
UpdateCacheLock(p) ==
    /\ Idle(p)
    /\ mu = NoProc
    /\ Event
    /\ mu' = p
    /\ pc' = [pc EXCEPT ![p] = "umc_mustget"]
    /\ UNCHANGED << engineVars, layerVars, loc, scope, calc, observer >>
    /\ last' = NoStep

\* updateMainWindowCacheLocked: MustGetMainWindow() with the mutex held; nil
\* returns; otherwise Unlock, Position() and Size().
UpdateCacheMustGet(p) ==
    /\ pc[p] = "umc_mustget"
    /\ mu' = NoProc
    /\ IF mainAvail
       THEN /\ pc' = [pc EXCEPT ![p] = "umc_relock"]
            /\ loc' = [loc EXCEPT ![p].mainRead = mainPos, ![p].mainSizeRead = MainSize]
       ELSE /\ pc' = [pc EXCEPT ![p] = "idle"]
            /\ loc' = loc
    /\ UNCHANGED << engineVars, layerVars, scope, calc, observer, events >>
    /\ last' = NoStep

\* Lock, the two cache writes, and the deferred Unlock of UpdateMainWindowCache.
UpdateCacheRelock(p) ==
    /\ pc[p] = "umc_relock"
    /\ mu = NoProc
    /\ lastMainWindowPos' = loc[p].mainRead
    /\ lastMainWindowSize' = loc[p].mainSizeRead
    /\ pc' = [pc EXCEPT ![p] = "idle"]
    /\ loc' = [loc EXCEPT ![p] = NoLoc]
    /\ UNCHANGED << mu, snapEnabled, managedWindows, windowRefs, windowSizeCache,
                    isUpdatingPosition, mainMoveUnhook, windowMoveUnhooks, windowInfo,
                    layerVars, scope, calc, observer, events >>
    /\ last' = NoStep

----------------------------------------------------------------------------
(* onChildWindowMoved *)

\* The id of the WindowInfo r is not registered and no RegisterWindow call for
\* it is in progress: UnregisterWindow or Cleanup has removed it.
Unregistered(r) ==
    /\ windowInfo[r].DocumentID \notin DOMAIN managedWindows
    /\ \A q \in scope.procs :
          pc[q] \in {"r_pos", "r_size", "r_getmain", "r_mainhook", "r_hook"} =>
              loc[q].id # windowInfo[r].DocumentID

\* A pending notification of hook r is delivered: the callback reads
\* wss.snapEnabled before it takes the mutex and returns when it is false.
ChildStart(p, r) ==
    /\ Idle(p)
    /\ r \in DOMAIN notif
    /\ notif' = MapDel(notif, r)
    /\ IF snapEnabled
       THEN /\ pc' = [pc EXCEPT ![p] = "c_guard"]
            /\ loc' = [loc EXCEPT ![p] = [NoLoc EXCEPT !.id = windowInfo[r].DocumentID,
                                                       !.info = r,
                                                       !.echo = (notif[r] = "echo"),
                                                       !.orphan = Unregistered(r)]]
       ELSE UNCHANGED << pc, loc >>
    /\ UNCHANGED << mu, engineVars, mainAvail, mainPos, winPos, winBy, windowHooks,
                    mainHooksLeaked, mainNotif, scope, calc, observer, events >>
    /\ last' = NoStep

\* The callback of proc p returns: its locals are dropped and the mutex is free.
childReturn(p, wi) ==
    /\ mu' = NoProc
    /\ pc' = [pc EXCEPT ![p] = "idle"]
    /\ loc' = [loc EXCEPT ![p] = NoLoc]
    /\ windowInfo' = Collect(wi, managedWindows, windowHooks, loc')

\* Lock; if wss.isUpdatingPosition[DocumentID] the event is ignored; Unlock.
ChildGuard(p) ==
    /\ pc[p] = "c_guard"
    /\ mu = NoProc
    /\ IF MapGet(isUpdatingPosition, loc[p].id, FALSE)
       THEN childReturn(p, windowInfo)
       ELSE /\ pc' = [pc EXCEPT ![p] = "c_pos"]
            /\ UNCHANGED << mu, loc, windowInfo >>
    /\ UNCHANGED << snapEnabled, lastMainWindowPos, lastMainWindowSize, managedWindows,
                    windowRefs, windowSizeCache, isUpdatingPosition, mainMoveUnhook,
                    windowMoveUnhooks, layerVars, scope, calc, observer, events >>
    /\ last' = NoStep

\* window.Position() outside the mutex.
ChildPosition(p) ==
    /\ pc[p] = "c_pos"
    /\ pc' = [pc EXCEPT ![p] = "c_lock"]
    /\ loc' = [loc EXCEPT ![p].currentPos = winPos[loc[p].id], ![p].posBy = winBy[loc[p].id]]
    /\ UNCHANGED << mu, engineVars, layerVars, scope, calc, observer, events >>
    /\ last' = NoStep

\* No event is skipped for coming early.
debounceNever(timeSinceLastMove) == FALSE

\* if timeSinceLastMove < debounceThreshold, lines 603-606.
debounce(timeSinceLastMove) == timeSinceLastMove < debounceThreshold

\* No position counts as the one already recorded.
samePositionNever(a, b) == FALSE

\* currentPos.X == windowInfo.LastPos.X && currentPos.Y == windowInfo.LastPos.Y
samePosition(a, b) == a.X = b.X /\ a.Y = b.Y

\* What the previous step did when it ended a delivery, to the same
\* WindowInfo, of the position that proc p delivers now; "none" otherwise.
Repeated(p) ==
    IF /\ pc[p] = "c_lock"
       /\ last.info = loc[p].info
       /\ last.event = loc[p].currentPos
       /\ \/ last.op \in {"same", "snapped", "debounced", "attached"}
          \/ last.op = "evaluate" /\ ~last.write
    THEN last.op ELSE "none"

\* The record of a step of the callback of proc p: where the callback was,
\* the window, the WindowInfo as it was before the step, the position that was
\* delivered and who had set it, the position the step is about.
Step(op, p, pos) ==
    [NoStep EXCEPT !.op = op, !.at = pc[p], !.id = loc[p].id, !.info = loc[p].info,
                   !.before = windowInfo[loc[p].info], !.event = loc[p].currentPos,
                   !.echo = loc[p].echo, !.by = loc[p].posBy, !.repeat = Repeated(p),
                   !.pos = pos, !.orphan = loc[p].orphan]

\* A drag is taken for one only when the event comes late.
handleSnappedWindowLate(info, currentPos, cachePos, cacheSize) ==
    LET expectedX == cachePos.X + info.SnapOffset.X
        expectedY == cachePos.Y + info.SnapOffset.Y
        maxDistance == Max2(Abs(currentPos.X - expectedX), Abs(currentPos.Y - expectedY))
    IN  IF maxDistance > calculateAdaptiveThreshold(cacheSize[1])
           /\ info.MoveAge >= dragDetectionThreshold
        THEN unsnap(info) ELSE info

\* A drag is taken for one at any distance.
handleSnappedWindowAnyDistance(info, currentPos, cachePos, cacheSize) ==
    IF info.MoveAge < dragDetectionThreshold THEN unsnap(info) ELSE info

\* handleSnappedWindow: windowInfo.MoveTime is the value the caller has just
\* set to time.Now().
handleSnappedWindow(info, currentPos, cachePos, cacheSize) ==
    LET expectedX == cachePos.X + info.SnapOffset.X
        expectedY == cachePos.Y + info.SnapOffset.Y
        maxDistance == Max2(Abs(currentPos.X - expectedX), Abs(currentPos.Y - expectedY))
        userDragThreshold == calculateAdaptiveThreshold(cacheSize[1])
        isUserDrag == /\ maxDistance > userDragThreshold
                      /\ info.MoveAge < dragDetectionThreshold
    IN  IF isUserDrag THEN unsnap(info) ELSE info

\* shouldSnapToMainWindow from line 621 and handleUnsnappedWindow up to the
\* Unlock before SetPosition.  mainPosL and mainSizeL are the locals of lines
\* 613-615, cachePos and cacheSize the cache as it is now.
decide(p, wi, mainPosL, mainSizeL, cachePos, cacheSize, winSize) ==
    LET r == loc[p].info
        currentPos == loc[p].currentPos
        threshold == calculateAdaptiveThreshold(cacheSize[1])
        snapEdge == snapCandidate(mainPosL, mainSizeL, currentPos, winSize, threshold)
        targetPos == calculateSnapPosition(snapEdge, currentPos, cachePos, cacheSize, winSize)
    IN  /\ last' = [Step("evaluate", p, targetPos) EXCEPT !.write = snapEdge # SnapEdgeNone]
        /\ IF snapEdge = SnapEdgeNone
           THEN /\ childReturn(p, [wi EXCEPT ![r].LastPos = currentPos])
                /\ UNCHANGED isUpdatingPosition
           ELSE /\ windowInfo' = [wi EXCEPT ![r].IsSnapped = TRUE, ![r].SnapEdge = snapEdge]
                /\ isUpdatingPosition' = MapPut(isUpdatingPosition, loc[p].id, TRUE)
                /\ mu' = NoProc
                /\ pc' = [pc EXCEPT ![p] = "c_setpos"]
                /\ loc' = [loc EXCEPT ![p].target = targetPos]

\* Lines 613-618: the locals are read from the cache, then getWindowSizeCached
\* releases the mutex when the size of the window is not cached.
afterCache(p, wi, cachePos, cacheSize) ==
    IF loc[p].id \in DOMAIN windowSizeCache
    THEN decide(p, wi, cachePos, cacheSize, cachePos, cacheSize, windowSizeCache[loc[p].id])
    ELSE /\ windowInfo' = wi
         /\ mu' = NoProc
         /\ pc' = [pc EXCEPT ![p] = "c_size"]
         /\ loc' = [loc EXCEPT ![p].mainPosL = cachePos, ![p].mainSizeL = cacheSize]
         /\ last' = NoStep
         /\ UNCHANGED isUpdatingPosition

\* The second Lock and the body of onChildWindowMoved up to the first point
\* where the mutex is released or an external call is made.
ChildLock(p) ==
    /\ pc[p] = "c_lock"
    /\ mu = NoProc
    /\ LET r == loc[p].info
           info == windowInfo[r]
           currentPos == loc[p].currentPos
           moved == [info EXCEPT !.MoveAge = 0]
           lastMoveAge == info.MoveAge
       IN  IF samePosition(currentPos, info.LastPos)
           THEN /\ childReturn(p, windowInfo)
                /\ last' = Step("same", p, currentPos)
                /\ UNCHANGED isUpdatingPosition
           ELSE IF info.IsSnapped
           THEN /\ childReturn(p, [windowInfo EXCEPT ![r] =
                       [handleSnappedWindow(moved, currentPos, lastMainWindowPos,
                                            lastMainWindowSize)
                           EXCEPT !.LastPos = currentPos]])
                /\ last' = Step("snapped", p, currentPos)
                /\ UNCHANGED isUpdatingPosition
           ELSE IF debounce(lastMoveAge)
           THEN /\ childReturn(p, [windowInfo EXCEPT ![r] =
                                      [moved EXCEPT !.LastPos = currentPos]])
                /\ last' = Step("debounced", p, currentPos)
                /\ UNCHANGED isUpdatingPosition
           ELSE IF lastMainWindowSize[1] = 0 \/ lastMainWindowSize[2] = 0
           THEN /\ windowInfo' = [windowInfo EXCEPT ![r] = moved]
                /\ mu' = p
                /\ pc' = [pc EXCEPT ![p] = "c_mustget"]
                /\ last' = NoStep
                /\ UNCHANGED << loc, isUpdatingPosition >>
           ELSE afterCache(p, [windowInfo EXCEPT ![r] = moved], lastMainWindowPos,
                           lastMainWindowSize)
    /\ UNCHANGED << snapEnabled, lastMainWindowPos, lastMainWindowSize, managedWindows,
                    windowRefs, windowSizeCache, mainMoveUnhook, windowMoveUnhooks,
                    layerVars, scope, calc, observer, events >>

\* updateMainWindowCacheLocked called by shouldSnapToMainWindow:
\* MustGetMainWindow() with the mutex held; nil returns to line 613; otherwise
\* Unlock, Position() and Size().
ChildMustGet(p) ==
    /\ pc[p] = "c_mustget"
    /\ IF mainAvail
       THEN /\ mu' = NoProc
            /\ pc' = [pc EXCEPT ![p] = "c_mainrelock"]
            /\ loc' = [loc EXCEPT ![p].mainRead = mainPos, ![p].mainSizeRead = MainSize]
            /\ last' = NoStep
            /\ UNCHANGED << windowInfo, isUpdatingPosition >>
       ELSE afterCache(p, windowInfo, lastMainWindowPos, lastMainWindowSize)
    /\ UNCHANGED << snapEnabled, lastMainWindowPos, lastMainWindowSize, managedWindows,
                    windowRefs, windowSizeCache, mainMoveUnhook, windowMoveUnhooks,
                    layerVars, scope, calc, observer, events >>

\* Lock and the two cache writes of updateMainWindowCacheLocked, then line 613.
ChildMainRelock(p) ==
    /\ pc[p] = "c_mainrelock"
    /\ mu = NoProc
    /\ lastMainWindowPos' = loc[p].mainRead
    /\ lastMainWindowSize' = loc[p].mainSizeRead
    /\ afterCache(p, windowInfo, lastMainWindowPos', lastMainWindowSize')
    /\ UNCHANGED << snapEnabled, managedWindows, windowRefs, windowSizeCache,
                    mainMoveUnhook, windowMoveUnhooks, layerVars, scope, calc, observer, events >>

\* updateWindowSizeCacheLocked called by getWindowSizeCached: window.Size()
\* outside the mutex, Lock, the size is cached, then line 621.
ChildSize(p) ==
    /\ pc[p] = "c_size"
    /\ mu = NoProc
    /\ windowSizeCache' = MapPut(windowSizeCache, loc[p].id, WindowSize)
    /\ decide(p, windowInfo, loc[p].mainPosL, loc[p].mainSizeL, lastMainWindowPos,
              lastMainWindowSize, WindowSize)
    /\ UNCHANGED << snapEnabled, lastMainWindowPos, lastMainWindowSize, managedWindows,
                    windowRefs, mainMoveUnhook, windowMoveUnhooks, layerVars, scope, calc, observer, events >>

\* window.SetPosition(targetPos.X, targetPos.Y) outside the mutex.
setPosition(p) ==
    /\ winPos' = [winPos EXCEPT ![loc[p].id] = loc[p].target]
    /\ winBy' = [winBy EXCEPT ![loc[p].id] = "engine"]
    /\ notif' = IF winPos'[loc[p].id] # winPos[loc[p].id]
                THEN Notify(notif, windowHooks, windowInfo, loc[p].id, "echo")
                ELSE notif
    /\ UNCHANGED << mu, engineVars, mainAvail, mainPos, windowHooks, mainHooksLeaked,
                    mainNotif, loc, scope, calc, observer, events >>

ChildSetPosition(p) ==
    /\ pc[p] = "c_setpos"
    /\ pc' = [pc EXCEPT ![p] = "c_relock"]
    /\ setPosition(p)
    /\ last' = NoStep

\* The record after lines 575-582.
attached(info, targetPos, cachePos) ==
    [info EXCEPT !.SnapOffset = Pos(targetPos.X - cachePos.X, targetPos.Y - cachePos.Y),
                 !.LastPos = targetPos]

\* Lock, the guard is cleared, the offset and the position are stored; the
\* deferred Unlock.
ChildRelock(p) ==
    /\ pc[p] = "c_relock"
    /\ mu = NoProc
    /\ isUpdatingPosition' = clearUpdating(isUpdatingPosition, loc[p].id)
    /\ childReturn(p, [windowInfo EXCEPT ![loc[p].info] =
                          attached(@, loc[p].target, lastMainWindowPos)])
    /\ last' = Step("attached", p, loc[p].target)
    /\ UNCHANGED << snapEnabled, lastMainWindowPos, lastMainWindowSize, managedWindows,
                    windowRefs, windowSizeCache, mainMoveUnhook, windowMoveUnhooks,
                    layerVars, scope, calc, observer, events >>

----------------------------------------------------------------------------
(* onMainWindowMoved *)

\* The record of a step in which onMainWindowMoved returns (proc p is idle
\* after it), with the position the primary window had when the callback began.
MainReturned(p, step, at) ==
    [step EXCEPT !.mainDone = (pc'[p] = "idle"), !.mainAt = at]

\* The callback goes on to the Lock whatever the flag is.
MainStartAlways(p) ==
    /\ Idle(p)
    /\ mainNotif
    /\ mainNotif' = FALSE
    /\ pc' = [pc EXCEPT ![p] = "m_lock"]
    /\ loc' = [loc EXCEPT ![p].mainRead = mainPos, ![p].mainSizeRead = MainSize]
    /\ UNCHANGED << mu, engineVars, mainAvail, mainPos, winPos, winBy, windowHooks,
                    mainHooksLeaked, notif, scope, calc, observer, events >>
    /\ last' = NoStep

\* A pending notification of the primary hook is delivered: the callback
\* reads wss.snapEnabled before it takes the mutex and returns when it is
\* false; MustGetMainWindow(), Position() and Size() outside the mutex.
MainStart(p) ==
    /\ Idle(p)
    /\ mainNotif
    /\ mainNotif' = FALSE
    /\ IF snapEnabled /\ mainAvail
       THEN /\ pc' = [pc EXCEPT ![p] = "m_lock"]
            /\ loc' = [loc EXCEPT ![p].mainRead = mainPos, ![p].mainSizeRead = MainSize]
       ELSE UNCHANGED << pc, loc >>
    /\ UNCHANGED << mu, engineVars, mainAvail, mainPos, winPos, winBy, windowHooks,
                    mainHooksLeaked, notif, scope, calc, observer, events >>
    /\ last' = IF snapEnabled /\ mainAvail THEN NoStep ELSE MainReturned(p, NoStep, mainPos)

\* The window is put where the primary window is.
expectedPositionOfMain(cachePos, info) == cachePos

\* updateSnappedWindowPosition, lines 492-493.
expectedPosition(cachePos, info) ==
    Pos(cachePos.X + info.SnapOffset.X, cachePos.Y + info.SnapOffset.Y)

\* The range loop over wss.managedWindows, up to the Unlock before the next
\* SetPosition or to the deferred Unlock.  The order of a range over a map is
\* not fixed: any entry not yet produced may come next, and the entries that
\* are not snapped when they are produced are passed over.
mainLoop(p, wi, guard, cachePos, l) ==
    LET todo == {id \in l[p].pending \cap DOMAIN managedWindows :
                    wi[managedWindows[id]].IsSnapped /\ id \in DOMAIN windowRefs}
    IN  IF todo = {}
        THEN /\ mu' = NoProc
             /\ pc' = [pc EXCEPT ![p] = "idle"]
             /\ loc' = [l EXCEPT ![p] = NoLoc]
             /\ windowInfo' = Collect(wi, managedWindows, windowHooks, loc')
             /\ isUpdatingPosition' = guard
        ELSE \E id \in todo :
             /\ mu' = NoProc
             /\ pc' = [pc EXCEPT ![p] = "m_setpos"]
             /\ loc' = [l EXCEPT ![p].id = id, ![p].info = managedWindows[id],
                                 ![p].target = expectedPosition(cachePos,
                                                                wi[managedWindows[id]]),
                                 ![p].pending = @ \ {id}]
             /\ windowInfo' = Collect(wi, managedWindows, windowHooks, loc')
             /\ isUpdatingPosition' = MapPut(guard, id, TRUE)

\* Lock, the two cache writes, and the loop up to its first Unlock.
MainLock(p) ==
    /\ pc[p] = "m_lock"
    /\ mu = NoProc
    /\ lastMainWindowPos' = loc[p].mainRead
    /\ lastMainWindowSize' = loc[p].mainSizeRead
    /\ mainLoop(p, windowInfo, isUpdatingPosition, lastMainWindowPos',
                [loc EXCEPT ![p].prevMain = lastMainWindowPos,
                            ![p].pending = DOMAIN managedWindows])
    /\ last' = MainReturned(p, [NoStep EXCEPT !.op = "MainLock", !.pos = lastMainWindowPos],
                             loc[p].mainRead)
    /\ UNCHANGED << snapEnabled, managedWindows, windowRefs, windowSizeCache,
                    mainMoveUnhook, windowMoveUnhooks, layerVars, scope, calc, observer, events >>

\* window.SetPosition(expectedX, expectedY) outside the mutex.
MainSetPosition(p) ==
    /\ pc[p] = "m_setpos"
    /\ pc' = [pc EXCEPT ![p] = "m_relock"]
    /\ setPosition(p)
    /\ last' = [Step("MainSetPosition", p, winPos[loc[p].id])
                    EXCEPT !.prevMain = loc[p].prevMain]

\* Lock, the guard is cleared and LastPos stored; then the loop goes on.
MainRelock(p) ==
    /\ pc[p] = "m_relock"
    /\ mu = NoProc
    /\ mainLoop(p, [windowInfo EXCEPT ![loc[p].info].LastPos = loc[p].target],
                clearUpdating(isUpdatingPosition, loc[p].id), lastMainWindowPos,
                [loc EXCEPT ![p].info = NoInfo])
    /\ last' = MainReturned(p, Step("MainRelock", p, loc[p].target), loc[p].mainRead)
    /\ UNCHANGED << snapEnabled, lastMainWindowPos, lastMainWindowSize, managedWindows,
                    windowRefs, windowSizeCache, mainMoveUnhook, windowMoveUnhooks,
                    layerVars, scope, calc, observer, events >>

----------------------------------------------------------------------------
(* ServiceShutdown and Cleanup *)

\* ServiceShutdown: wss.cancelObserver is set at construction and never set to
\* nil, so every call calls it; wss.Cleanup() follows.
ShutdownCancel(p) ==
    /\ Idle(p)
    /\ Event
    /\ observer.cancels < MaxShutdowns
    /\ observer' = [watching |-> FALSE, cancels |-> observer.cancels + 1]
    /\ pc' = [pc EXCEPT ![p] = "sd_cancelled"]
    /\ UNCHANGED << mu, engineVars, layerVars, loc, scope, calc >>
    /\ last' = NoStep

\* wss.mu.Lock(), of Cleanup called on its own or by ServiceShutdown
CleanupLock(p) ==
    /\ \/ Idle(p) /\ Event
       \/ pc[p] = "sd_cancelled" /\ UNCHANGED events
    /\ mu = NoProc
    /\ mu' = p
    /\ pc' = [pc EXCEPT ![p] = IF pc[p] = "sd_cancelled" THEN "sd_locked" ELSE "cl_locked"]
    /\ UNCHANGED << engineVars, layerVars, loc, scope, calc, observer >>
    /\ last' = NoStep

\* cleanupMainWindowEvents and every unhook() with the mutex held; the five
\* maps are replaced by empty ones; the deferred Unlock.
CleanupUnhook(p) ==
    /\ pc[p] \in {"cl_locked", "sd_locked"}
    /\ mainMoveUnhook' = FALSE
    /\ mainNotif' = (mainNotif /\ mainHooksLeaked)
    /\ windowHooks' = windowHooks \ Values(windowMoveUnhooks)
    /\ notif' = Pending(notif, windowHooks')
    /\ windowMoveUnhooks' = EmptyMap
    /\ managedWindows' = EmptyMap
    /\ windowRefs' = EmptyMap
    /\ windowSizeCache' = EmptyMap
    /\ isUpdatingPosition' = EmptyMap
    /\ loc' = DropPending(loc, IDs)
    /\ windowInfo' = Collect(windowInfo, managedWindows', windowHooks', loc')
    /\ mu' = NoProc
    /\ pc' = [pc EXCEPT ![p] = "idle"]
    /\ UNCHANGED << snapEnabled, lastMainWindowPos, lastMainWindowSize, mainAvail, mainPos,
                    winPos, winBy, mainHooksLeaked, scope, calc, observer, events >>
    /\ last' = IF pc[p] = "sd_locked"
               THEN [NoStep EXCEPT !.op = "shutdown", !.at = pc[p]]
               ELSE NoStep

----------------------------------------------------------------------------
(* The specifications *)

Next ==
    \/ \E id \in scope.ids : \E P \in scope.positions : id \in DOMAIN windowRefs /\ UserMove(id, P)
    \/ \E P \in MainPositions : MainMove(P)
    \/ Tick
    \/ \E enabled \in BOOLEAN : SetSnapEnabled(enabled)
    \/ \E newValue \in ConfigValues : observer.watching /\ onWindowSnapConfigChange(newValue)
    \/ \E p \in Procs :
        \/ \E id \in scope.ids : RegisterLock(p, id)
        \/ RegisterPosition(p)
        \/ RegisterSize(p)
        \/ RegisterGetMain(p)
        \/ RegisterMainHook(p)
        \/ RegisterHook(p)
        \/ \E id \in scope.ids : UnregisterLock(p, id)
        \/ UnregisterUnhook(p)
        \/ UpdateCacheLock(p)
        \/ UpdateCacheMustGet(p)
        \/ UpdateCacheRelock(p)
        \/ \E r \in InfoIds : ChildStart(p, r)
        \/ ChildGuard(p)
        \/ ChildPosition(p)
        \/ ChildLock(p)
        \/ ChildMustGet(p)
        \/ ChildMainRelock(p)
        \/ ChildSize(p)
        \/ ChildSetPosition(p)
        \/ ChildRelock(p)
        \/ MainStart(p)
        \/ MainLock(p)
        \/ MainSetPosition(p)
        \/ MainRelock(p)
        \/ ShutdownCancel(p)
        \/ CleanupLock(p)
        \/ CleanupUnhook(p)

\* One secondary window with one WindowInfo record at a time; the callbacks
\* overlap.
Init == InitState({1}, Procs, 1, UserPositions) /\ calc = NoCalc

Spec == Init /\ [][Next]_vars

\* Every secondary window, an id may be registered again while it is
\* registered; one callback runs at a time.
InitWindows == InitState(IDs, {1}, NumWindows, UserPositions) /\ calc = NoCalc

SpecWindows == InitWindows /\ [][Next]_vars

\* One secondary window that the user drags next to the primary window or next
\* to the origin of the screen; one callback runs at a time.
InitOrigin == InitState({1}, {1}, NumWindows, {Pos(805, 300)} \cup OriginPositions) /\ calc = NoCalc

SpecOrigin == InitOrigin /\ [][Next]_vars

\* The next step of proc p begins with a call into the windowing layer:
\* Position(), Size(), SetPosition(), GetMainWindow(), MustGetMainWindow(),
\* RegisterHook() or an unhook function.
ExternalCall(p) ==
    \/ pc[p] \in {"r_pos", "r_size", "r_getmain", "r_mainhook", "r_hook", "umc_mustget",
                  "c_pos", "c_mustget", "c_size", "c_setpos", "m_setpos"}
    \/ pc[p] = "u_locked" /\ loc[p].id \in DOMAIN windowMoveUnhooks
    \/ pc[p] = "cl_locked" /\ (mainMoveUnhook \/ DOMAIN windowMoveUnhooks # {})

\* The windowing layer delivers move callbacks on the thread that calls into
\* it: proc p + 1 runs the callbacks that are delivered inside an external call
\* of proc p, and proc p goes on when the callback has returned.
Returned(p) == pc[p] = "idle"

OnThread(p) == \A q \in Procs : q > p => Returned(q)

NextReentry ==
    \/ \E id \in scope.ids : \E P \in scope.positions : id \in DOMAIN windowRefs /\ UserMove(id, P)
    \/ \E P \in MainPositions : MainMove(P)
    \/ Tick
    \/ \E enabled \in BOOLEAN : SetSnapEnabled(enabled)
    \/ \E newValue \in ConfigValues : observer.watching /\ onWindowSnapConfigChange(newValue)
    \/ /\ OnThread(1)
       /\ \/ \E id \in scope.ids : RegisterLock(1, id)
          \/ RegisterPosition(1)
          \/ RegisterSize(1)
          \/ RegisterGetMain(1)
          \/ RegisterMainHook(1)
          \/ RegisterHook(1)
          \/ \E id \in scope.ids : UnregisterLock(1, id)
          \/ UnregisterUnhook(1)
          \/ UpdateCacheLock(1)
          \/ UpdateCacheMustGet(1)
          \/ UpdateCacheRelock(1)
          \/ ShutdownCancel(1)
          \/ CleanupLock(1)
          \/ CleanupUnhook(1)
    \/ \E p \in Procs :
        /\ OnThread(p)
        /\ p > 1 /\ Returned(p) => ExternalCall(p - 1)
        /\ \/ \E r \in InfoIds : ChildStart(p, r)
           \/ ChildGuard(p)
           \/ ChildPosition(p)
           \/ ChildLock(p)
           \/ ChildMustGet(p)
           \/ ChildMainRelock(p)
           \/ ChildSize(p)
           \/ ChildSetPosition(p)
           \/ ChildRelock(p)
           \/ MainStart(p)
           \/ MainLock(p)
           \/ MainSetPosition(p)
           \/ MainRelock(p)

\* One secondary window, registered more than once; a callback runs inside an
\* external call.
InitReentry == InitState({1}, Procs, NumWindows, {Pos(805, 300)}) /\ calc = NoCalc

SpecReentry == InitReentry /\ [][NextReentry]_vars

----------------------------------------------------------------------------
(* The geometry functions on their own *)

\* The largest cached primary width, and the largest gap, in pixels, between
\* the secondary window and the right edge or the top-right corner of the
\* primary window.
MaxWidth == 1700
MaxGap == 30

\* The position of a secondary window whose left edge is dx pixels right of the
\* primary's right edge and whose bottom edge is dy pixels below its top edge.
NearTopRight(dx, dy) ==
    Pos(InitialMainPos.X + MainSize[1] + dx, InitialMainPos.Y - WindowSize[2] + dy)

\* Positions about the top-right corner of the primary window, and positions
\* about its right edge at the height of the primary window, lower, and below
\* the primary window altogether.
CornerPositions == {NearTopRight(dx, dy) : dx \in (-MaxGap)..MaxGap, dy \in (-MaxGap)..MaxGap}
EdgePositions ==
    {Pos(NearTopRight(dx, 0).X, y) : dx \in (-MaxGap)..MaxGap,
                                     y \in {InitialMainPos.Y, InitialWindowPos.Y,
                                            InitialMainPos.Y + 2 * MainSize[2]}}

\* The arguments of one evaluation: any cached width with the window at its
\* initial position, or the primary window at (100,100) with its size of
\* 700x800 and the window somewhere about its right edge.
CalcInputs ==
    {[NoCalc EXCEPT !.op = "input", !.mainPos = InitialMainPos,
                    !.mainSize = <<w, VOIDRAFT_WINDOW_HEIGHT>>,
                    !.currentPos = InitialWindowPos, !.winSize = WindowSize] :
        w \in 0..MaxWidth}
    \cup
    {[NoCalc EXCEPT !.op = "input", !.mainPos = InitialMainPos, !.mainSize = MainSize,
                    !.currentPos = P, !.winSize = WindowSize] :
        P \in CornerPositions \cup EdgePositions}

\* The engine with no window and no callback.
InitCalc ==
    /\ InitState({}, {}, 0, {})
    /\ calc \in CalcInputs

\* threshold := float64(wss.calculateAdaptiveThreshold()), line 621.
CalcThreshold ==
    /\ calc.op = "input"
    /\ calc' = [calc EXCEPT !.op = "threshold",
                            !.threshold = calculateAdaptiveThreshold(calc.mainSize[1])]
    /\ UNCHANGED << mu, engineVars, layerVars, pc, loc, scope, events, last, observer >>

\* shouldSnapToMainWindow from line 622 to its return.
CalcCandidate ==
    /\ calc.op = "threshold"
    /\ calc' = [calc EXCEPT !.op = "candidate",
                            !.snapEdge = snapCandidate(calc.mainPos, calc.mainSize,
                                                       calc.currentPos, calc.winSize,
                                                       calc.threshold)]
    /\ UNCHANGED << mu, engineVars, layerVars, pc, loc, scope, events, last, observer >>

\* handleUnsnappedWindow, line 565, when should is true.
CalcPosition ==
    /\ calc.op = "candidate"
    /\ calc.snapEdge # SnapEdgeNone
    /\ calc' = [calc EXCEPT !.op = "position",
                            !.targetPos = calculateSnapPosition(calc.snapEdge, calc.currentPos,
                                                                calc.mainPos, calc.mainSize,
                                                                calc.winSize)]
    /\ UNCHANGED << mu, engineVars, layerVars, pc, loc, scope, events, last, observer >>

NextCalc ==
    \/ CalcThreshold
    \/ CalcCandidate
    \/ CalcPosition

SpecCalc == InitCalc /\ [][NextCalc]_vars

----------------------------------------------------------------------------
(* Properties *)

\* The WindowInfo of a registered window.
Tracked(id) == windowInfo[managedWindows[id]]

\* GetCurrentThreshold
GetCurrentThreshold == calculateAdaptiveThreshold(lastMainWindowSize[1])

\* C1: in every reachable state, also while a handler has released the mutex
\* around an external call, every registered window has IsSnapped true exactly
\* when its SnapEdge is not None.
C1_SnappedIffEdge ==
    \A id \in DOMAIN managedWindows :
        Tracked(id).IsSnapped <=> Tracked(id).SnapEdge # SnapEdgeNone

\* A handler has marked a registered window as snapped and has released the
\* mutex for the position write.
C1_Witness ==
    \E p \in Procs :
        /\ pc[p] = "c_setpos"
        /\ mu = NoProc
        /\ loc[p].id \in DOMAIN managedWindows
        /\ Tracked(loc[p].id).IsSnapped
        /\ Tracked(loc[p].id).SnapEdge = "Right"

\* C2: a position write of the engine never causes a snap candidate
\* evaluation for the window it moves: no callback delivered for the echo of a
\* write, reading the position the engine wrote, evaluates candidates.
C2_EchoNeverEvaluated ==
    ~(last.op = "evaluate" /\ last.echo /\ last.by = "engine")

\* Chebyshev distance of two positions.
Chebyshev(a, b) == Max2(Abs(a.X - b.X), Abs(a.Y - b.Y))

\* The step that led here handled a move event of a window that was snapped
\* (the event passed the guard and the position differs from LastPos), at
\* Chebyshev distance dist from the cached primary position + SnapOffset.
SnappedEvent(dist) ==
    /\ last.op = "snapped"
    /\ last.info \in DOMAIN windowInfo
    /\ dist = Chebyshev(last.event, expectedPosition(lastMainWindowPos, last.before))

\* C3: when a snapped window receives a move event at P whose Chebyshev
\* distance from primary position + snapOffset exceeds the threshold, less than
\* 40 ms after the previous lastMoveTimestamp, the window becomes unsnapped
\* with SnapEdge None and LastPos P.
C3_FastDragDetaches ==
    \A dist \in {Chebyshev(last.event, expectedPosition(lastMainWindowPos, last.before))} :
        /\ SnappedEvent(dist)
        /\ dist > GetCurrentThreshold
        /\ last.before.MoveAge < dragDetectionThreshold
        => /\ ~windowInfo[last.info].IsSnapped
           /\ windowInfo[last.info].SnapEdge = SnapEdgeNone
           /\ windowInfo[last.info].LastPos = last.event

\* A registered snapped window was dragged 50 px away within 40 ms.
C3_Witness ==
    /\ SnappedEvent(50)
    /\ last.before.MoveAge < dragDetectionThreshold
    /\ last.id \in DOMAIN managedWindows
    /\ managedWindows[last.id] = last.info
    /\ GetCurrentThreshold = 17

\* C4: when a snapped window receives a move event 40 ms or more after the
\* previous lastMoveTimestamp, it stays snapped with its SnapEdge unchanged,
\* however far the position is from primary position + snapOffset.
C4_SlowMoveStaysSnapped ==
    \A dist \in {Chebyshev(last.event, expectedPosition(lastMainWindowPos, last.before))} :
        /\ SnappedEvent(dist)
        /\ last.before.MoveAge >= dragDetectionThreshold
        => /\ windowInfo[last.info].IsSnapped
           /\ windowInfo[last.info].SnapEdge = last.before.SnapEdge

\* The step that led here handled a move event, and it changed no field of
\* the WindowInfo and did not go on to a position write.
NothingChanged ==
    /\ windowInfo[last.info] = last.before
    /\ ~last.write

\* C5 as stated: the second of two deliveries of the same position in a row
\* changes nothing (IsSnapped, SnapEdge, SnapOffset, LastPos, MoveTime) and
\* issues no write, also when the first delivery attached the window.
C5_SecondDeliveryChangesNothing ==
    last.repeat # "none" /\ last.info \in DOMAIN windowInfo => NothingChanged

\* C5 amended: a delivery of the position that is the window's LastPos changes
\* nothing and issues no write, and so does the second of two deliveries of
\* the same position in a row when the first did not attach the window.
C5_SamePositionIgnored ==
    /\ last.at = "c_lock"
    /\ last.info \in DOMAIN windowInfo
    /\ \/ last.event = last.before.LastPos
       \/ last.repeat \notin {"none", "attached"}
    => NothingChanged

\* The second of two deliveries in a row of a position, to a registered window
\* that the first delivery left snapped, has been handled.
C5_Witness ==
    /\ last.repeat = "snapped"
    /\ last.id \in DOMAIN managedWindows
    /\ managedWindows[last.id] = last.info
    /\ last.before.IsSnapped
    /\ NothingChanged

\* The vector by which the cached primary position changed in the primary-move
\* callback whose position write led here.
MainDelta ==
    Pos(lastMainWindowPos.X - last.prevMain.X, lastMainWindowPos.Y - last.prevMain.Y)

\* The position at the vector d from the position pos.
Shift(pos, d) == Pos(pos.X + d.X, pos.Y + d.Y)

\* The step that led here is a position write of the primary-move callback
\* and it moved the window by the vector d.
MovedBy(d) == winPos[last.id] = Shift(last.pos, d)

\* C6 as stated: when the primary window moves by d, the position of every
\* window the primary-move callback writes to changes by exactly d.
C6_SnappedMovesByDelta ==
    last.op = "MainSetPosition" => MovedBy(MainDelta)

\* C6 amended: when the primary window moves by d, every window that is
\* snapped is put at the new primary position plus its SnapOffset, which is a
\* change by exactly d when the window was at the previous primary position
\* plus its SnapOffset; a window that is not snapped is not chosen for a write.
C6_SnappedMovesToOffset ==
    /\ last.op = "MainSetPosition" =>
          /\ winPos[last.id] = Shift(lastMainWindowPos, last.before.SnapOffset)
          /\ last.pos = Shift(last.prevMain, last.before.SnapOffset) => MovedBy(MainDelta)
    /\ last.op \in {"MainLock", "MainRelock"} =>
          \A p \in scope.procs :
              pc[p] = "m_setpos" => /\ windowInfo[loc[p].info].IsSnapped
                                    /\ loc[p].id \in DOMAIN managedWindows
                                    /\ managedWindows[loc[p].id] = loc[p].info

\* The primary window has moved by (+30,+15) and the callback has moved a
\* snapped window by the same vector, while another window is tracked and
\* not snapped, and stays where it is.
C6_Witness ==
    /\ last.op = "MainSetPosition"
    /\ MainDelta = Pos(30, 15)
    /\ MovedBy(MainDelta)
    /\ \E id \in DOMAIN managedWindows :
          /\ id # last.id
          /\ ~Tracked(id).IsSnapped
          /\ winPos[id] = InitialWindowPos

\* C7: when SetSnapEnabled(false) has returned, every tracked window has
\* IsSnapped = false and SnapEdge = None.
C7_DisableDetachesAll ==
    last.op = "SetSnapEnabled" /\ ~last.enabled =>
        \A id \in DOMAIN managedWindows :
            ~Tracked(id).IsSnapped /\ Tracked(id).SnapEdge = SnapEdgeNone

\* The step is one of the child-move callback of proc p for the WindowInfo r,
\* and it goes on to the position write of an attach.
AttachStep(p, r) ==
    /\ pc[p] \in {"c_lock", "c_mainrelock", "c_size"}
    /\ loc[p].info = r
    /\ pc'[p] = "c_setpos"
    /\ loc'[p].id = windowInfo[r].DocumentID

C9_NoExternalCallUnderMutex ==
    \A p \in scope.procs : ExternalCall(p) => mu # p

\* The step is the one in which the callback of proc p reads wss.snapEnabled
\* at the head of onChildWindowMoved or of onMainWindowMoved.
ReadsSnapEnabled(p) ==
    \/ MainStart(p)
    \/ \E r \in InfoIds : ChildStart(p, r)

\* C10: every read of the snap-enabled flag by a move callback is made while
\* that callback holds the mutex.
C10_FlagReadUnderMutex ==
    [][\A p \in scope.procs : ReadsSnapEnabled(p) => mu = p]_vars

\* A RegisterWindow or UnregisterWindow call is in progress.
Registering ==
    \E p \in scope.procs :
        pc[p] \in {"r_pos", "r_size", "r_getmain", "r_mainhook", "r_hook", "u_locked"}

\* C11: with the primary window available and no RegisterWindow or
\* UnregisterWindow call in progress, a primary-move hook is registered if and
\* only if at least one secondary window is registered.
C11_MainHookIffWindows ==
    mainAvail /\ ~Registering => (MainHookActive <=> DOMAIN managedWindows # {})

\* The corner checks and the edge checks of the evaluation, and the corner
\* checks within the corner threshold.
CalcCorners == cornerChecks(calc.mainPos, calc.mainSize, calc.currentPos, calc.winSize)
CalcEdges == edgeChecks(calc.mainPos, calc.mainSize, calc.currentPos, calc.winSize)
CalcAccepted == {i \in 1..Len(CalcCorners) : cornerAccepted(CalcCorners[i], calc.threshold)}

\* The candidate has been evaluated.
Evaluated == calc.op \in {"candidate", "position"}

\* C12: when at least one corner alignment is within the corner threshold, the
\* accepted candidate is a corner of minimal distance among them, whatever the
\* gaps of the edge alignments are.
C12_CornerPriority ==
    Evaluated /\ CalcAccepted # {} =>
        \E i \in CalcAccepted :
            /\ calc.snapEdge = CalcCorners[i].edge
            /\ \A j \in CalcAccepted : cornerDist2(CalcCorners[j]) >= cornerDist2(CalcCorners[i])

\* Primary width 700, the window within 10 px of the top-right corner of the
\* primary on both axes, the gap to the right edge within the threshold and
\* smaller than the distance to the corner: the candidate is TopRight.
C12_Witness ==
    /\ Evaluated
    /\ calc.mainSize[1] = 700
    /\ Abs(CalcCorners[1].dx) <= 10
    /\ Abs(CalcCorners[1].dy) <= 10
    /\ CalcEdges[1].distance <= calc.threshold
    /\ CalcEdges[1].distance * CalcEdges[1].distance < cornerDist2(CalcCorners[1])
    /\ calc.snapEdge = "TopRight"

\* The evaluation is of Scenario A: the primary at (100,100) of size 700x800,
\* the left edge of the window within 5 px of x = 800 and the vertical extent
\* of the window overlapping the one of the primary.
ScenarioA ==
    /\ Evaluated
    /\ calc.mainPos = Pos(100, 100)
    /\ calc.mainSize = <<700, 800>>
    /\ Abs(calc.currentPos.X - 800) <= 5
    /\ calc.currentPos.Y < 900
    /\ calc.currentPos.Y + calc.winSize[2] > 100

\* The candidate is Right and the snap position is (800, Y) with the Y of the
\* event position.
SnapsRight ==
    /\ calc.snapEdge = "Right"
    /\ calc.op = "position" => calc.targetPos = Pos(800, calc.currentPos.Y)

\* C13 as stated: in Scenario A the window snaps to Right at (800, Y).
C13_ScenarioASnapsRight == ScenarioA => SnapsRight

\* C13 amended: in Scenario A the window snaps to Right at (800, Y) unless a
\* corner alignment is within the corner threshold.
C13_ScenarioASnapsRightIfNoCorner == ScenarioA /\ CalcAccepted = {} => SnapsRight

\* The window at (805,300) has been given the snap position (800,300) on Right.
C13_Witness ==
    /\ ScenarioA
    /\ calc.op = "position"
    /\ calc.currentPos = Pos(805, 300)
    /\ calc.snapEdge = "Right"
    /\ calc.targetPos = Pos(800, 300)

\* The threshold has been computed from the cached primary width.
ThresholdComputed == calc.op \in {"threshold", "candidate", "position"}

\* C14: the threshold lies in [8,40], is 8 when w * 0.025 < 8 (also for
\* w = 0), is the integer part of w * 0.025 when that lies in [8,40] (17 for
\* w = 700), and is not smaller than the threshold of the width w - 1.
C14_ThresholdClamped ==
    ThresholdComputed =>
        LET w == calc.mainSize[1]
            t == calc.threshold
        IN  /\ t \in 8..40
            /\ w * 25 < 8 * 1000 => t = 8
            /\ (w * 25) \div 1000 \in 8..40 => t = (w * 25) \div 1000
            /\ w = 700 => t = 17
            /\ w > 0 => calculateAdaptiveThreshold(w - 1) <= t

\* The threshold of the width 700 has been computed and is 17.
C14_Witness ==
    /\ calc.op = "threshold"
    /\ calc.mainSize[1] = 700
    /\ calc.threshold = 17

\* The evaluation is for the primary width 700 and the threshold is 17.
Width700 ==
    /\ Evaluated
    /\ calc.mainSize[1] = 700

\* C15 as stated: for the primary width 700 the threshold is 17 and every
\* corner alignment at a distance d <= 26.25 (16 d^2 <= 105^2) is accepted.
C15_CornerThreshold2625 ==
    Width700 =>
        /\ calc.threshold = 17
        /\ \A i \in 1..Len(CalcCorners) :
               16 * cornerDist2(CalcCorners[i]) <= 105 * 105 =>
                   calc.snapEdge = CalcCorners[i].edge

\* C15 amended: for the primary width 700 the threshold is 17 and the corner
\* threshold is 1.5 * 17 = 25.5: a corner alignment is accepted exactly when
\* its distance d is at most 25.5 (4 d^2 <= 51^2).
C15_CornerThreshold255 ==
    Width700 =>
        /\ calc.threshold = 17
        /\ \A i \in 1..Len(CalcCorners) :
               IF 4 * cornerDist2(CalcCorners[i]) <= 51 * 51
               THEN calc.snapEdge = CalcCorners[i].edge
               ELSE calc.snapEdge # CalcCorners[i].edge

\* Gaps of 18 and 18 px to the top-right corner (d = 25.46): TopRight.
C15_Witness ==
    /\ Width700
    /\ Abs(CalcCorners[1].dx) = 18
    /\ Abs(CalcCorners[1].dy) = 18
    /\ calc.snapEdge = "TopRight"

\* The WindowInfo records the registry holds for the id.
EntriesOf(id) == {k \in DOMAIN managedWindows : Tracked(k).DocumentID = id}

\* C16: when RegisterWindow(id, window) has returned, the registry holds one
\* entry for id, with IsSnapped = false, SnapEdge = None and LastPos the
\* position of the window read at registration; and at no time does the
\* registry hold more than one entry for an id.
C16_RegisterLeavesOneFreshEntry ==
    /\ \A id \in IDs : Cardinality(EntriesOf(id)) <= 1
    /\ last.op = "registered" =>
          /\ EntriesOf(last.id) = {last.id}
          /\ managedWindows[last.id] = last.info
          /\ ~Tracked(last.id).IsSnapped
          /\ Tracked(last.id).SnapEdge = SnapEdgeNone
          /\ Tracked(last.id).LastPos = last.pos

\* The step that led here is one of a child-move callback that wrote to the
\* WindowInfo it holds (MoveTime, LastPos, IsSnapped), and set the guard of the
\* window for a position write when last.write.
HandlerChange == last.op \in {"snapped", "debounced", "evaluate", "attached"}

\* C17: a move notification delivered after UnregisterWindow(id) has removed
\* the id changes no engine state and moves no window.
C17_NoHandlingAfterUnregister ==
    ~(HandlerChange /\ last.orphan)

ShutdownReturned == last.op = "shutdown"
\* C18: when ServiceShutdown returns, the configuration-change subscription,
\* the primary-move subscription and every stored move-listener handle are
\* released and the registry is empty; no handle is released a second time.
C18_ShutdownReleasesOnce ==
    /\ ShutdownReturned =>
          /\ ~observer.watching
          /\ ~mainMoveUnhook
          /\ windowMoveUnhooks = EmptyMap
          /\ managedWindows = EmptyMap
    /\ observer.cancels <= 1

\* C19: when the constructor or a change notification obtains a setting that
\* is missing or not a boolean, the flag is false afterwards, and after the
\* notification no tracked window is attached.
C19_UnusableSettingDisables ==
    /\ last.op = "constructed" /\ last.config = "error" => ~snapEnabled
    /\ last.op = "SetSnapEnabled" /\ last.config \in {"nil", "string"} =>
          /\ ~snapEnabled
          /\ \A r \in Values(managedWindows) : ~windowInfo[r].IsSnapped

\* C20: while the primary window does not exist, GetCurrentThreshold is
\* minThreshold, no window is attached and the engine writes no position.
C20_UnavailablePrimaryNoOp ==
    ~mainAvail =>
        /\ GetCurrentThreshold = minThreshold
        /\ \A r \in DOMAIN windowInfo : ~windowInfo[r].IsSnapped
        /\ \A id \in IDs : winBy[id] # "engine"

\* Proc p is about to issue a position write: window.SetPosition of an attach
\* or of a primary-move re-sync is its next step.
Writing(p) == pc[p] \in {"c_setpos", "m_setpos"}

\* C21: whenever a callback issues a position write to a tracked window, the
\* guard of the window is set and the callback does not hold the mutex.
C21_WriteGuardedAndUnlocked ==
    \A p \in scope.procs :
        Writing(p) /\ loc[p].id \in DOMAIN managedWindows =>
            /\ mu # p
            /\ MapGet(isUpdatingPosition, loc[p].id, FALSE)

\* C22: when onMainWindowMoved has returned, the cached position and size of
\* the primary window are the ones the window had when the callback began,
\* whether snapping is enabled or not.
C22_MainMoveRefreshesCache ==
    last.mainDone => /\ lastMainWindowPos = last.mainAt
                     /\ lastMainWindowSize = MainSize

\* The step that led here handled, with the mutex held, a move event of a
\* window that was not snapped, at a position that differs from its LastPos.
UnsnappedEvent ==
    /\ last.at = "c_lock"
    /\ last.info \in DOMAIN windowInfo
    /\ ~last.before.IsSnapped
    /\ last.event # last.before.LastPos

\* C23: when a window that is not snapped receives a move event at a new
\* position P less than 30 ms after its previous MoveTime, no candidate is
\* evaluated: the window stays unsnapped, LastPos is P, MoveTime is now and
\* no position write follows, wherever P is.
C23_DebouncedEventOnlyRecorded ==
    UnsnappedEvent /\ last.before.MoveAge < 30 =>
        /\ last.op = "debounced"
        /\ ~last.write
        /\ windowInfo[last.info] = [last.before EXCEPT !.LastPos = last.event, !.MoveAge = 0]

\* A registered window that is not snapped was dragged to 5 px from the right
\* edge of the primary window, whose geometry is cached, less than 30 ms after
\* its previous move.
C23_Witness ==
    /\ UnsnappedEvent
    /\ last.before.MoveAge < 30
    /\ last.op = "debounced"
    /\ last.event = Pos(805, 300)
    /\ lastMainWindowPos = Pos(100, 100)
    /\ lastMainWindowSize = MainSize
    /\ last.id \in DOMAIN managedWindows
    /\ managedWindows[last.id] = last.info

\* A window of size winSize at position pos touches the primary window at
\* primaryPos of size primarySize on the edge or at the corner: no gap on the axes
\* the edge aligns.
Touches(edge, pos, primaryPos, primarySize, winSize) ==
    /\ edge \in {"Right", "TopRight", "BottomRight"} => pos.X = primaryPos.X + primarySize[1]
    /\ edge \in {"Left", "TopLeft", "BottomLeft"} => pos.X + winSize[1] = primaryPos.X
    /\ edge \in {"Bottom", "BottomRight", "BottomLeft"} => pos.Y = primaryPos.Y + primarySize[2]
    /\ edge \in {"Top", "TopRight", "TopLeft"} => pos.Y + winSize[2] = primaryPos.Y

\* The position pos keeps the coordinate of the position from that an edge
\* does not align.
KeepsPerpendicular(edge, pos, from) ==
    /\ edge \in {"Right", "Left"} => pos.Y = from.Y
    /\ edge \in {"Top", "Bottom"} => pos.X = from.X

\* C24: when the handler of a move event of an unsnapped window has accepted a
\* candidate and returns, and nothing has detached the window during the
\* write, the window is snapped on that edge, LastPos is the position the
\* window was commanded to, SnapOffset is that position minus the cached
\* primary position, and the position touches the cached primary rectangle on
\* the edge, with the other coordinate of the event kept.
C24_AttachEndsTouching ==
    last.op = "attached" /\ last.info \in DOMAIN windowInfo /\ last.before.IsSnapped =>
        LET rec == windowInfo[last.info]
        IN  /\ rec.IsSnapped
            /\ rec.SnapEdge # SnapEdgeNone
            /\ rec.LastPos = last.pos
            /\ rec.SnapOffset = Pos(last.pos.X - lastMainWindowPos.X,
                                    last.pos.Y - lastMainWindowPos.Y)
            /\ Touches(rec.SnapEdge, last.pos, lastMainWindowPos, lastMainWindowSize,
                       WindowSize)
            /\ KeepsPerpendicular(rec.SnapEdge, last.pos, last.event)

\* The edge checks whose gap is within the threshold.
CalcEdgesWithin == {i \in 1..Len(CalcEdges) : CalcEdges[i].distance <= calc.threshold}

C26_MainMoveResyncsSnapped ==
    /\ last.op = "MainRelock" /\ last.info \in DOMAIN windowInfo =>
          /\ last.pos = Shift(lastMainWindowPos, last.before.SnapOffset)
          /\ windowInfo[last.info].LastPos = last.pos
    /\ last.mainDone /\ last.op \in {"MainLock", "MainRelock"} =>
          \A id \in DOMAIN managedWindows :
              Tracked(id).IsSnapped =>
                  Tracked(id).LastPos = Shift(lastMainWindowPos, Tracked(id).SnapOffset)

\* C27: when a snapped window receives a move event at P whose Chebyshev
\* distance from primary position + snapOffset is at most the threshold, the
\* window stays snapped with SnapEdge and SnapOffset unchanged, LastPos becomes
\* P, and the callback returns without a position write.
C27_NearEventKeepsSnapped ==
    \A dist \in {Chebyshev(last.event, expectedPosition(lastMainWindowPos, last.before))} :
        /\ SnappedEvent(dist)
        /\ dist <= GetCurrentThreshold
        => /\ windowInfo[last.info].IsSnapped
           /\ windowInfo[last.info].SnapEdge = last.before.SnapEdge
           /\ windowInfo[last.info].SnapOffset = last.before.SnapOffset
           /\ windowInfo[last.info].LastPos = last.event
           /\ ~last.write
           /\ \A p \in scope.procs : ~Writing(p)

\* A registered snapped window was moved 5 px, within the threshold of 17,
\* less than 40 ms after its previous event.
C27_Witness ==
    /\ SnappedEvent(5)
    /\ GetCurrentThreshold = 17
    /\ last.before.MoveAge < dragDetectionThreshold
    /\ last.id \in DOMAIN managedWindows
    /\ managedWindows[last.id] = last.info
    /\ windowInfo[last.info].IsSnapped
    /\ windowInfo[last.info].LastPos = last.event

\* No callback and no operation of the service is executing.
NoHandlerExecuting == \A p \in scope.procs : pc[p] = "idle"

\* C28: whenever no handler of the engine is executing, no window id has its
\* re-entrancy guard set: every guard that was set for a position write has
\* been cleared when the handler that set it has returned.
C28_NoStaleGuard ==
    NoHandlerExecuting => \A id \in DOMAIN isUpdatingPosition : ~isUpdatingPosition[id]

\* The handler that set the guard of a tracked window for a position write has
\* taken the mutex again and returned, and no handler is executing.
C28_Witness ==
    /\ NoHandlerExecuting
    /\ last.op \in {"attached", "MainRelock"}
    /\ last.id \in DOMAIN managedWindows
    /\ last.id \in DOMAIN isUpdatingPosition
    /\ ~isUpdatingPosition[last.id]
    /\ winBy[last.id] = "engine"

\* The callback of proc q was delivered inside an external call of proc p, on
\* the thread of p, and its next statement is wss.mu.Lock().
WaitsInside(p, q) ==
    /\ p < q
    /\ ~Returned(p)
    /\ pc[q] \in {"c_guard", "c_lock", "c_mainrelock", "c_size", "c_relock", "m_lock",
                  "m_relock"}

\* C29: a move callback that the windowing layer delivers on the same thread
\* from inside an external call of the engine can take the mutex: the handler
\* that made the external call, which goes on only when the callback has
\* returned, does not hold it.
C29_ReentrantCallbackTakesMutex ==
    \A p, q \in scope.procs : WaitsInside(p, q) => mu # p

\* C30: whenever the snap-enabled flag is false and the move handlers that
\* were in progress when it was cleared have returned, no tracked window is
\* snapped.
C30_DisabledLeavesNoneSnapped ==
    ~snapEnabled /\ NoHandlerExecuting =>
        \A id \in DOMAIN managedWindows : ~Tracked(id).IsSnapped

\* The step is the one in which proc p, whose SetPosition has returned, takes
\* the mutex again (line 506 or 572) and goes on.
FinishesWrite(p) ==
    /\ pc[p] \in {"c_relock", "m_relock"}
    /\ pc'[p] # pc[p]

\* C31: a writer that finishes never clears the guard of a window while the
\* position write of another handler to the same window is still in flight:
\* the guard of the window is set after the step.
C31_FinishingWriterKeepsGuard ==
    [][\A p, q \in scope.procs :
          /\ p # q
          /\ FinishesWrite(p)
          /\ Writing(q)
          /\ loc[q].id = loc[p].id
          => MapGet(isUpdatingPosition', loc[q].id, FALSE)]_vars

\* The step is one of a move callback of proc p that has released the mutex
\* around an external call and takes it again.
ResumesLocked(p) ==
    /\ pc[p] \in {"c_mainrelock", "c_size", "c_relock", "m_relock"}
    /\ pc'[p] # pc[p]

\* C32: a move handler that released the mutex around an external call and
\* resumes after UnregisterWindow(id) or Cleanup has removed id creates no
\* entry for id in the guard map or in the size cache.
C32_ResumedHandlerCreatesNoEntry ==
    [][\A p \in scope.procs : ResumesLocked(p) =>
          \A id \in IDs \ DOMAIN managedWindows :
              /\ id \in DOMAIN isUpdatingPosition' => id \in DOMAIN isUpdatingPosition
              /\ id \in DOMAIN windowSizeCache' => id \in DOMAIN windowSizeCache]_vars

\* The attach of the WindowInfo r by proc q is in progress: the record is
\* marked snapped (line 561), the mutex is released for SetPosition, and
\* SnapOffset is not yet stored (lines 578-579).
AttachInProgress(q, r) ==
    /\ pc[q] \in {"c_setpos", "c_relock"}
    /\ loc[q].info = r

\* C33: the primary-move handler computes no target for a window whose attach
\* is in progress, that is, from a SnapOffset the attach has not stored yet.
C33_NoResyncDuringAttach ==
    [][\A p, q \in scope.procs :
          /\ pc[p] \in {"m_lock", "m_relock"}
          /\ pc'[p] = "m_setpos"
          => ~AttachInProgress(q, loc'[p].info)]_vars

\* The move listeners of the window id that are subscribed: the WindowInfo
\* records their closures hold.
ListenersOf(id) == {r \in windowHooks : windowInfo[r].DocumentID = id}

\* C34: when no RegisterWindow or UnregisterWindow call is in progress, each
\* registered id has exactly one subscribed move listener and each id that is
\* not registered has none.
C34_OneListenerPerRegisteredId ==
    ~Registering =>
        \A id \in IDs :
            Cardinality(ListenersOf(id)) = IF id \in DOMAIN managedWindows THEN 1 ELSE 0

\* The step delivers a move event to its callback: a waiting notification of
\* the primary window or of a secondary window is taken by a proc that was
\* idle.
DeliversMoveEvent ==
    /\ events' = events
    /\ \A p \in scope.procs : pc'[p] # pc[p] => pc[p] = "idle"
    /\ \/ mainNotif /\ ~mainNotif'
       \/ DOMAIN notif' # DOMAIN notif /\ DOMAIN notif' \subseteq DOMAIN notif

\* C35: a secondary-move or primary-move event delivered while the
\* snap-enabled flag is false changes no state of the engine (flag, cache,
\* maps, guards, WindowInfo records), takes no mutex, starts no handler and
\* writes no position.
C35_DisabledEventChangesNothing ==
    [][~snapEnabled /\ DeliversMoveEvent =>
          UNCHANGED << mu, engineVars, pc, loc, winPos, winBy >>]_vars

\* A primary-move event was delivered while snapping was disabled and a window
\* was registered: the callback has returned and the cached primary position is
\* still the one from before the move.
C35_Witness ==
    /\ ~snapEnabled
    /\ mainAvail
    /\ last.mainDone
    /\ last.op = "none"
    /\ DOMAIN managedWindows # {}
    /\ lastMainWindowPos # mainPos
    /\ lastMainWindowSize = MainSize

====
